---- MODULE Spec2Model ----
(***************************************************************************)
(* sveltekit-pocketbase: the server half of the adapter (hookHandler,      *)
(* handleSync, hookFetchHandler) as a state machine over concurrent        *)
(* requests.                                                               *)
(*                                                                         *)
(* The repository holds three revisions of the adapter class:              *)
(*   "getter"  src/src/index.ts 48-263   (pb is an accessor, get pb)       *)
(*   "getPB"   src/src/app.d.ts 61-265   (pb is a field, getPB())          *)
(*   "store"   src/src/index.ts 301-484  (pb is a field shared by every    *)
(*                                        request, handleHook)             *)
(* The revision deployed is fixed in the initial state.                    *)
(*                                                                         *)
(* JavaScript runs each handler to its next await without interruption, so *)
(* an action is one such segment of a handler.                             *)
(***************************************************************************)
EXTENDS Naturals, Sequences, FiniteSets, TLC

(***************************************************************************)
(* Values                                                                  *)
(***************************************************************************)
Null == "null"
Undefined == "undefined"

\* Bearer tokens: "" is absent, "E" is a token whose expiry has passed,
\* "X" and "Y" are live tokens of two different users.
Tokens == {"", "X", "Y", "E"}
ExpiredTokens == {"E"}
Models == {Null, "u1", "u2"}

\* The record the backend returns for the owner of a live token.
Owner(t) == IF t = "X" THEN "u1" ELSE "u2"

Revisions == {"getter", "getPB", "store"}

\* The concurrent requests and the client instances they can hold.
Requests == {"r1", "r2"}
SharedPb == "_pb"
FreshPbs == {"pb1", "pb2"}
NoPb == "none"
RangeError == "RangeError"

\* Depth of the JavaScript call stack at which a call throws RangeError.
StackLimit == 3

(***************************************************************************)
(* The backend client's auth store (pocketbase BaseAuthStore), as the      *)
(* adapter uses it.                                                        *)
(***************************************************************************)
AuthStates == [token : Tokens, model : Models]

\* authStore.save(token, model): an absent model is stored as null.
save(token, model) ==
  [token |-> token, model |-> IF model = Undefined THEN Null ELSE model]

\* authStore.clear()
clear == save("", Null)

\* A cookie header: absent, not decodable, or the pb_auth cookie.
Cookies ==
  {[fmt |-> "absent", token |-> "", model |-> Null],
   [fmt |-> "malformed", token |-> "", model |-> Null]}
  \cup [fmt : {"pb_auth"}, token : Tokens, model : Models]

\* authStore.exportToCookie()
exportToCookie(store) ==
  [fmt |-> "pb_auth", token |-> store.token, model |-> store.model]

\* authStore.loadFromCookie(cookie || '')
loadFromCookie(cookie) ==
  IF cookie.fmt = "pb_auth" THEN save(cookie.token, cookie.model) ELSE clear

(***************************************************************************)
(* State                                                                   *)
(***************************************************************************)
VARIABLES
  revision,   \* the revision of the adapter class that is deployed
  validity,   \* the rule behind authStore.isValid in the linked SDK
  authStore,  \* token and model of every backend client instance
  user,       \* value of the adapter's process-wide `user` store
  req,        \* the requests being served: inputs, position, results
  local,      \* browser: token and model of the adapter's auth store
  cuser,      \* browser: value of the adapter's `user` store
  jar,        \* browser: the cookie it sends with its requests
  sync,       \* browser: the sync calls (authSync) and their position
  posted,     \* browser: a sync POST has been dispatched since construction
  unhandled   \* browser: a promise was rejected with no handler

browser == <<local, cuser, jar, sync, posted, unhandled>>

vars == <<revision, validity, authStore, user, req, local, cuser, jar, sync,
          posted, unhandled>>

\* authStore.isValid is computed from token and model, never stored. The SDK
\* is not part of the repository: "token" is the rule of the pocketbase SDK
\* (a token is present and has not expired), "tokenAndModel" asks for a
\* model as well.
ValidityRules == {"token", "tokenAndModel"}

isValid(store) ==
  /\ store.token # ""
  /\ store.token \notin ExpiredTokens
  /\ (validity = "tokenAndModel" => store.model # Null)

(***************************************************************************)
(* handleSync                                                              *)
(***************************************************************************)
\* The parsed JSON body of a sync request; a key that is missing reads as
\* undefined. isValid is "true", "false" or missing.
FullMessages ==
  [fmt : {"json"}, isValid : {"true", "false"}, token : Tokens, model : Models]

PartialMessages ==
  {[fmt |-> "json", isValid |-> Undefined, token |-> Undefined, model |-> Undefined],
   [fmt |-> "json", isValid |-> "true", token |-> Undefined, model |-> Undefined],
   [fmt |-> "json", isValid |-> Undefined, token |-> "X", model |-> "u1"]}

\* A body request.json() cannot parse (also: no body at all).
MalformedBody ==
  [fmt |-> "malformed", isValid |-> Undefined, token |-> Undefined, model |-> Undefined]

Bodies == FullMessages \cup PartialMessages \cup {MalformedBody}

Truthy(v) == v = "true"

\* clientAuthStore.token || ''
OrEmpty(t) == IF t = Undefined THEN "" ELSE t

\* json({ hasUpdate: false })
NoUpdate == [hasUpdate |-> FALSE, token |-> Undefined, model |-> Undefined]

\* json({ hasUpdate: true, token, model })
Update(store) == [hasUpdate |-> TRUE, token |-> store.token, model |-> store.model]

\* Mutant of LooseEq: only true == true counts as equal.
LooseEqOnlyTrue(b, v) == b /\ v = "true"

\* JavaScript's boolean == value, for a value that is true, false or undefined.
LooseEq(b, v) == v = (IF b THEN "true" ELSE "false")

\* Mutant of unchanged: the branch appends a cookie all the same.
unchangedWithCookie(store) ==
  [store |-> store, body |-> NoUpdate, setCookie |-> <<exportToCookie(store)>>]

\* handleSync, validity equal: return json({ hasUpdate: false }).
unchanged(store) == [store |-> store, body |-> NoUpdate, setCookie |-> <<>>]

\* Mutant of adopted: the set-cookie header is forgotten.
adoptedWithoutCookie(store) ==
  [store |-> store, body |-> NoUpdate, setCookie |-> <<>>]

\* handleSync, the saved client state is valid: { hasUpdate: false } with the
\* cookie of the adopted state.
adopted(store) ==
  [store |-> store, body |-> NoUpdate, setCookie |-> <<exportToCookie(store)>>]

\* Mutant of cleared: the response body is built before clear() runs.
clearedStaleBody(store) ==
  [store |-> clear, body |-> Update(store), setCookie |-> <<exportToCookie(clear)>>]

\* handleSync, last branch, entered with `store`: clear(), then the server's
\* state in the body and in the cookie.
cleared(store) ==
  [store |-> clear, body |-> Update(clear), setCookie |-> <<exportToCookie(clear)>>]

\* Mutant of handleSync: a client without a session leaves the server's alone.
handleSyncKeepsSession(store, m) ==
  IF LooseEq(isValid(store), m.isValid) \/ ~Truthy(m.isValid)
  THEN unchanged(store)
  ELSE LET saved == save(OrEmpty(m.token), m.model)
       IN  IF isValid(saved) THEN adopted(saved) ELSE cleared(saved)

\* handleSync after request.json() has resolved with m: the auth store it
\* leaves, the response body and the set-cookie headers appended.
handleSync(store, m) ==
  IF LooseEq(isValid(store), m.isValid)
  THEN unchanged(store)
  ELSE LET saved == IF Truthy(m.isValid)
                    THEN save(OrEmpty(m.token), m.model)
                    ELSE store
       IN  IF Truthy(m.isValid) /\ isValid(saved)
           THEN adopted(saved)
           ELSE cleared(saved)

(***************************************************************************)
(* Routes and URLs: strings as sequences of pieces, so that startsWith is  *)
(* a prefix test.                                                          *)
(***************************************************************************)
StartsWith(s, p) == Len(p) <= Len(s) /\ SubSeq(s, 1, Len(p)) = p

\* defaultOptions.syncRoute
SyncRoute == <<"/users", "/sync">>

Paths == {<<"/users", "/sync">>, <<"/users", "/sync", "/now">>, <<"/users">>, <<"/about">>}

\* defaultOptions.pbBaseUrl
BaseUrl == <<"http://127.0.0.1", ":8090">>

\* Outbound URLs: the backend, a host whose URL only begins like the
\* backend's (port 80900), and another site.
PathPieces == {"/api"}
OutUrls ==
  {<<"http://127.0.0.1", ":8090", "/api">>,
   <<"http://127.0.0.1", ":8090", "0", "/api">>,
   <<"https://example.org", "/api">>}

\* scheme://host:port of a URL: its pieces up to the path.
Origin(url) == SelectSeq(url, LAMBDA piece : piece \notin PathPieces)

\* An outbound request: its URL and the Authorization header it has.
OutRequests == [url : OutUrls, authorization : {Undefined, "preset"}]

\* `given` is the Authorization header the request came with.
NoOut ==
  [url |-> <<>>, given |-> Undefined, authorization |-> Undefined,
   returned |-> "none"]

\* Mutant of hookFetchHandler: a header the request has is kept.
hookFetchHandlerKeepsHeader(store, request) ==
  IF StartsWith(request.url, BaseUrl)
  THEN [url |-> request.url, given |-> request.authorization,
        authorization |-> IF request.authorization = Undefined
                          THEN store.token
                          ELSE request.authorization,
        returned |-> "fetch"]
  ELSE [url |-> request.url, given |-> request.authorization,
        authorization |-> request.authorization, returned |-> "false"]

\* hookFetchHandler({ event, request, fetch }) with event.locals.pb holding
\* `store`: the request as dispatched and what the handler returns.
hookFetchHandler(store, request) ==
  IF StartsWith(request.url, BaseUrl)
  THEN [url |-> request.url, given |-> request.authorization,
        authorization |-> store.token, returned |-> "fetch"]
  ELSE [url |-> request.url, given |-> request.authorization,
        authorization |-> request.authorization, returned |-> "false"]

(***************************************************************************)
(* Requests                                                                *)
(***************************************************************************)
NoCookie == [fmt |-> "absent", token |-> "", model |-> Null]
NoBody == [fmt |-> "none", isValid |-> Undefined, token |-> Undefined, model |-> Undefined]
NoResponse == [body |-> NoUpdate, setCookie |-> <<>>]

\* A request slot that serves no request.
IdleReq ==
  [pc |-> "idle", cookie |-> NoCookie, path |-> <<>>, body |-> NoBody,
   pb |-> NoPb, loaded |-> FALSE, decoded |-> clear, refreshCalls |-> 0, sent |-> "", refreshed |-> "none",
   pre |-> clear, returned |-> "pending", error |-> "none",
   response |-> NoResponse, seen |-> Undefined, out |-> NoOut]

\* The body a request to `path` carries: only a sync request's body is read.
BodiesFor(path) == IF StartsWith(path, SyncRoute) THEN Bodies ELSE {NoBody}

\* new PocketBase(baseUrl): an instance no request holds.
newPocketBase == CHOOSE p \in FreshPbs : \A r \in Requests : req[r].pb # p

\* get pb(), entered at call depth `depth`. On the server the accessor reads
\* this.pb, which enters the accessor again.
RECURSIVE getPb(_, _)
getPb(ssr, depth) ==
  IF ~ssr THEN SharedPb
  ELSE IF depth > StackLimit THEN RangeError
  ELSE IF getPb(ssr, depth + 1) = RangeError THEN RangeError
  ELSE newPocketBase

\* The instance hookHandler attaches to event.locals.
attachedPb == IF revision = "getter" THEN getPb(TRUE, 1) ELSE newPocketBase

\* The instance the handlers of request r work on.
pbOf(r) == IF revision = "store" THEN SharedPb ELSE req[r].pb

\* hookHandler after the refresh step: the sync-route decision.
route(rec) ==
  IF StartsWith(rec.path, SyncRoute)
  THEN [rec EXCEPT !.pc = "readingBody"]
  ELSE [rec EXCEPT !.pc = "resolving", !.returned = "false"]

\* Mutant of shouldRefresh: the cookie is taken at its word.
shouldRefreshNever(store) == FALSE

\* Mutant of shouldRefresh: any token at all is refreshed.
shouldRefreshAnyToken(store) == store.token # ""

\* authStore.isValid && authRefresh(): whether the refresh call is made.
shouldRefresh(store) == isValid(store)

\* Mutant of catchRefresh: only the token is dropped.
catchRefreshTokenOnly(store) ==
  [store |-> [store EXCEPT !.token = ""], thrown |-> "none"]

\* try { ... authRefresh() } catch (_) { authStore.clear() }, entered with the
\* rejection: the auth store left and the error that leaves the block.
catchRefresh(store) == [store |-> clear, thrown |-> "none"]

\* this.user.set(model) in hookHandler; handleHook has no such call.
userSet(model) == IF revision = "store" THEN user ELSE model

\* A sync call that is not running. `value` is the model the call will put
\* in the user store, `cookie` the cookie header its POST carries.
IdleSync ==
  [pc |-> "idle", value |-> Undefined, cookie |-> NoCookie, body |-> NoBody,
   status |-> "none"]

\* The server as constructed: new PocketBase(pbBaseUrl), writable(model).
ServerInit ==
  /\ revision \in Revisions
  /\ validity \in ValidityRules
  /\ authStore = [p \in {SharedPb} \cup FreshPbs |-> clear]
  /\ user = Null
  /\ req = [r \in Requests |-> IdleReq]

\* No browser takes part.
NoBrowser ==
  /\ local = clear
  /\ cuser = Null
  /\ jar = NoCookie
  /\ sync = [w \in Requests |-> IdleSync]
  /\ posted = FALSE
  /\ unhandled = FALSE

Init == ServerInit /\ NoBrowser

\* hookHandler from its invocation to its first await.
HookHandler(r, cookie, path, body) ==
  /\ revision \in {"getter", "getPB"}
  /\ req[r].pc = "idle"
  /\ LET pb == attachedPb
         loaded == loadFromCookie(cookie)
         arrived == [IdleReq EXCEPT !.cookie = cookie, !.path = path, !.body = body]
         attached == [arrived EXCEPT !.pb = pb, !.loaded = TRUE, !.decoded = loaded]
     IN  IF pb = RangeError
         THEN /\ req' = [req EXCEPT ![r] =
                           [arrived EXCEPT !.pc = "rejected", !.returned = "rejected",
                                           !.error = RangeError]]
              /\ UNCHANGED <<authStore, user>>
         ELSE /\ authStore' = [authStore EXCEPT ![pb] = loaded]
              /\ IF shouldRefresh(loaded)
                 THEN /\ req' = [req EXCEPT ![r] =
                                   [attached EXCEPT !.pc = "refreshing",
                                                    !.refreshCalls = 1,
                                                    !.sent = loaded.token]]
                      /\ user' = user
                 ELSE /\ req' = [req EXCEPT ![r] = route(attached)]
                      /\ user' = userSet(loaded.model)
  /\ UNCHANGED <<browser, revision, validity>>

\* handleHook (store revision) from its invocation to its first await.
HandleHook(r, cookie, path, body) ==
  /\ revision = "store"
  /\ req[r].pc = "idle"
  /\ LET loaded == loadFromCookie(cookie)
         arrived == [IdleReq EXCEPT !.cookie = cookie, !.path = path, !.body = body,
                                    !.loaded = TRUE, !.decoded = loaded]
     IN  /\ authStore' = [authStore EXCEPT ![SharedPb] = loaded]
         /\ IF shouldRefresh(loaded)
            THEN req' = [req EXCEPT ![r] =
                           [arrived EXCEPT !.pc = "refreshing", !.refreshCalls = 1,
                                           !.sent = loaded.token]]
            ELSE req' = [req EXCEPT ![r] = route(arrived)]
  /\ UNCHANGED <<browser, revision, validity, user>>

\* authRefresh() resolves: the SDK saves the token and record returned.
RefreshOk(r) ==
  /\ req[r].pc = "refreshing"
  /\ LET store == save(req[r].sent, Owner(req[r].sent))
     IN  /\ authStore' = [authStore EXCEPT ![pbOf(r)] = store]
         /\ user' = userSet(store.model)
         /\ req' = [req EXCEPT ![r] = route([req[r] EXCEPT !.refreshed = "ok"])]
  /\ UNCHANGED <<browser, revision, validity>>

\* authRefresh() rejects: the catch block clears the auth store.
RefreshFail(r) ==
  /\ req[r].pc = "refreshing"
  /\ LET caught == catchRefresh(authStore[pbOf(r)])
         failed == [req[r] EXCEPT !.refreshed = "failed"]
     IN  /\ authStore' = [authStore EXCEPT ![pbOf(r)] = caught.store]
         /\ IF caught.thrown = "none"
            THEN /\ req' = [req EXCEPT ![r] = route(failed)]
                 /\ user' = userSet(caught.store.model)
            ELSE /\ req' = [req EXCEPT ![r] =
                              [failed EXCEPT !.pc = "rejected", !.returned = "rejected",
                                             !.error = caught.thrown]]
                 /\ user' = user
  /\ UNCHANGED <<browser, revision, validity>>

\* handleSync from the moment request.json() settles to its return.
HandleSync(r) ==
  /\ req[r].pc = "readingBody"
  /\ IF req[r].body.fmt # "json"
     THEN /\ req' = [req EXCEPT ![r].pc = "rejected", ![r].returned = "rejected",
                                ![r].error = "SyntaxError"]
          /\ UNCHANGED authStore
     ELSE LET out == handleSync(authStore[pbOf(r)], req[r].body)
          IN  /\ authStore' = [authStore EXCEPT ![pbOf(r)] = out.store]
              /\ req' = [req EXCEPT ![r].pc = "responded",
                                    ![r].returned = "response",
                                    ![r].pre = authStore[pbOf(r)],
                                    ![r].response =
                                      [body |-> out.body, setCookie |-> out.setCookie]]
  /\ UNCHANGED <<browser, revision, validity, user>>

\* The hook returned false and the page is resolved: a load function
\* fetches through handleFetch, which calls hookFetchHandler.
HookFetch(r, request) ==
  /\ revision # "store"
  /\ req[r].pc = "resolving"
  /\ req' = [req EXCEPT ![r].out = hookFetchHandler(authStore[req[r].pb], request)]
  /\ UNCHANGED <<browser, revision, validity, authStore, user>>

\* resolve(event) renders the page, which reads $user.
Render(r) ==
  /\ req[r].pc = "resolving"
  /\ req' = [req EXCEPT ![r].pc = "rendered", ![r].seen = user]
  /\ UNCHANGED <<browser, revision, validity, authStore, user>>

\* The response is sent (or the error reported) and the request, with the
\* instance it held, is discarded.
Finish(r) ==
  /\ req[r].pc \in {"responded", "rendered", "rejected"}
  /\ req' = [req EXCEPT ![r] = IdleReq]
  /\ authStore' = IF req[r].pb \in FreshPbs
                  THEN [authStore EXCEPT ![req[r].pb] = clear]
                  ELSE authStore
  /\ UNCHANGED <<browser, revision, validity, user>>

\* Requests served one after another, with every input.
Serial == {"r1"}

Next ==
  \/ \E r \in Serial, cookie \in Cookies, path \in Paths :
       \E body \in BodiesFor(path) : HookHandler(r, cookie, path, body)
  \/ \E r \in Serial, cookie \in Cookies, path \in Paths :
       \E body \in BodiesFor(path) : HandleHook(r, cookie, path, body)
  \/ \E r \in Serial : RefreshOk(r)
  \/ \E r \in Serial : RefreshFail(r)
  \/ \E r \in Serial : HandleSync(r)
  \/ \E r \in Serial, request \in OutRequests : HookFetch(r, request)
  \/ \E r \in Serial : Render(r)
  \/ \E r \in Serial : Finish(r)

Spec == Init /\ [][Next]_vars

\* Requests served concurrently: two browsers, one per user, each with its
\* own cookie; a sync request carries that browser's state or a logout.
TwoCookies ==
  {NoCookie, exportToCookie(save("X", "u1")), exportToCookie(save("Y", "u2"))}

TwoPaths == {SyncRoute, <<"/about">>}

TwoBodies(path) ==
  IF StartsWith(path, SyncRoute)
  THEN {[fmt |-> "json", isValid |-> "true", token |-> "X", model |-> "u1"],
        [fmt |-> "json", isValid |-> "true", token |-> "Y", model |-> "u2"],
        [fmt |-> "json", isValid |-> "false", token |-> "", model |-> Null]}
  ELSE {NoBody}

TwoOut == {[url |-> BaseUrl \o <<"/api">>, authorization |-> Undefined]}

NextConcurrent ==
  \/ \E r \in Requests, cookie \in TwoCookies, path \in TwoPaths :
       \E body \in TwoBodies(path) : HookHandler(r, cookie, path, body)
  \/ \E r \in Requests, cookie \in TwoCookies, path \in TwoPaths :
       \E body \in TwoBodies(path) : HandleHook(r, cookie, path, body)
  \/ \E r \in Requests : RefreshOk(r)
  \/ \E r \in Requests : RefreshFail(r)
  \/ \E r \in Requests : HandleSync(r)
  \/ \E r \in Requests, request \in TwoOut : HookFetch(r, request)
  \/ \E r \in Requests : Render(r)
  \/ \E r \in Requests : Finish(r)

SpecConcurrent == Init /\ [][NextConcurrent]_vars

(***************************************************************************)
(* The browser: the adapter constructed with import.meta.env.SSR false     *)
(* (BROWSER true), its auth store, its user store and its sync calls.      *)
(***************************************************************************)
\* What the browser's auth store can hold: no session, a live session, a
\* session whose token has expired.
ClientStates == {clear, save("X", "u1"), save("E", "u1")}

\* The cookie the browser holds when the page is opened.
ClientCookies == {NoCookie, exportToCookie(save("X", "u1"))}

\* Mutant of authSyncBody: the model is left out of the body.
authSyncBodyWithoutModel(store) ==
  [fmt |-> "json", isValid |-> IF isValid(store) THEN "true" ELSE "false",
   token |-> store.token, model |-> Null]

\* authSync: JSON.stringify({ isValid, token, model }) of the auth store.
authSyncBody(store) ==
  [fmt |-> "json", isValid |-> IF isValid(store) THEN "true" ELSE "false",
   token |-> store.token, model |-> store.model]

\* fetch(this.syncRoute, { method: 'POST', ... }) dispatched for a call that
\* will hand `value` to the user store.
dispatch(value, store) ==
  [pc |-> "posted", value |-> value, cookie |-> jar, body |-> authSyncBody(store),
   status |-> "none"]

\* Whether the constructor registered the authStore.onChange watcher.
watching == revision # "store"

\* Mutant of savesUpdate: authSync saves the update in every revision.
savesUpdateEveryRevision(status, body) == status = "ok" /\ body.hasUpdate

\* Whether authSync calls authStore.save with the response: only the store
\* revision reads the body, and saves when hasUpdate is set.
savesUpdate(status, body) == revision = "store" /\ status = "ok" /\ body.hasUpdate

\* Mutant of afterAuthSync: a failed sync logs the client out.
afterAuthSyncClearsOnError(store, status, body) ==
  IF status # "ok" THEN clear
  ELSE IF revision = "store" /\ body.hasUpdate
  THEN save(OrEmpty(body.token), body.model)
  ELSE store

\* The browser's auth store once authSync has dealt with the response. The
\* watcher revisions look at result.ok only; the store revision saves the
\* state of a response with hasUpdate.
afterAuthSync(store, status, body) ==
  IF savesUpdate(status, body)
  THEN save(OrEmpty(body.token), body.model)
  ELSE store

\* The browser as the page has loaded: the auth store restored from local
\* storage, writable(authStore.model), and in the store revision the
\* constructor's authSync() under way.
BrowserInit ==
  /\ local \in ClientStates
  /\ cuser = local.model
  /\ jar \in ClientCookies
  /\ sync = [w \in Requests |->
               IF revision = "store" /\ w = "r1"
               THEN [pc |-> "posted", value |-> Undefined, cookie |-> jar,
                     body |-> authSyncBody(local), status |-> "none"]
               ELSE IdleSync]
  /\ posted = (revision = "store")
  /\ unhandled = FALSE

InitClient == ServerInit /\ BrowserInit

\* Watcher revisions: the auth store is written (login, logout, refresh);
\* onChange runs the callback, which calls authSync up to its fetch.
Mutate(w, state) ==
  /\ revision # "store"
  /\ sync[w].pc = "idle"
  /\ local' = state
  /\ sync' = [sync EXCEPT ![w] = dispatch(state.model, state)]
  /\ posted' = TRUE
  /\ UNCHANGED <<revision, validity, authStore, user, req, cuser, jar, unhandled>>

\* Store revision: the auth store is written (authWithPassword, clear);
\* nothing observes it.
Authenticate(state) ==
  /\ revision = "store"
  /\ local # state
  /\ local' = state
  /\ UNCHANGED <<revision, validity, authStore, user, req, cuser, jar, sync,
                 posted, unhandled>>

\* Store revision: $user = value. user.set returns at once when value is the
\* auth store's model; otherwise it calls authSync up to its fetch.
UserSet(w, value) ==
  /\ revision = "store"
  /\ sync[w].pc = "idle"
  /\ local.model # value
  /\ sync' = [sync EXCEPT ![w] = dispatch(value, local)]
  /\ posted' = TRUE
  /\ UNCHANGED <<revision, validity, authStore, user, req, local, cuser, jar,
                 unhandled>>

\* The POST of sync call w reaches the server: the hook is invoked.
Deliver(w) ==
  /\ sync[w].pc = "posted"
  /\ \/ HookHandler(w, sync[w].cookie, SyncRoute, sync[w].body)
     \/ HandleHook(w, sync[w].cookie, SyncRoute, sync[w].body)

\* The response of sync call w reaches the browser, which stores its cookie;
\* authSync and its caller run to their end. A hook that rejected is
\* answered with status 500. A save inside authSync would notify a registered
\* watcher, whose callback runs to the fetch of its own authSync.
Receive(w) ==
  /\ sync[w].pc = "posted"
  /\ req[w].pc \in {"responded", "rejected"}
  /\ LET status == IF req[w].pc = "responded" THEN "ok" ELSE "error"
         cookies == req[w].response.setCookie
         store == afterAuthSync(local, status, req[w].response.body)
     IN  /\ jar' = IF status = "ok" /\ cookies # <<>>
                   THEN cookies[Len(cookies)]
                   ELSE jar
         /\ local' = store
         /\ cuser' = IF sync[w].value = Undefined THEN cuser
                     ELSE IF revision = "store" THEN store.model
                     ELSE sync[w].value
         /\ sync' = [sync EXCEPT ![w] =
                       IF watching /\ savesUpdate(status, req[w].response.body)
                       THEN [pc |-> "posted", value |-> store.model, cookie |-> jar',
                             body |-> authSyncBody(store), status |-> "none"]
                       ELSE [IdleSync EXCEPT !.pc = "settled",
                                             !.value = sync[w].value,
                                             !.status = status]]
  /\ req' = [req EXCEPT ![w] = IdleReq]
  /\ authStore' = IF req[w].pb \in FreshPbs
                  THEN [authStore EXCEPT ![req[w].pb] = clear]
                  ELSE authStore
  /\ UNCHANGED <<revision, validity, user, posted, unhandled>>

\* The fetch of sync call w rejects (the network is down): authSync rejects
\* and so does the async function that awaited it; nothing handles it.
NetworkFail(w) ==
  /\ sync[w].pc = "posted"
  /\ req[w].pc = "idle"
  /\ sync' = [sync EXCEPT ![w] = [IdleSync EXCEPT !.pc = "settled",
                                                 !.value = sync[w].value,
                                                 !.status = "rejected"]]
  /\ unhandled' = TRUE
  /\ UNCHANGED <<revision, validity, authStore, user, req, local, cuser, jar,
                 posted>>

\* A sync call that has ended is forgotten.
Forget(w) ==
  /\ sync[w].pc = "settled"
  /\ sync' = [sync EXCEPT ![w] = IdleSync]
  /\ UNCHANGED <<revision, validity, authStore, user, req, local, cuser, jar,
                 posted, unhandled>>

NextClient ==
  \/ \E w \in Requests, state \in ClientStates : Mutate(w, state)
  \/ \E state \in ClientStates : Authenticate(state)
  \/ \E w \in Requests, value \in {Null, "u1"} : UserSet(w, value)
  \/ \E w \in Requests : Deliver(w)
  \/ \E w \in Requests : RefreshOk(w)
  \/ \E w \in Requests : RefreshFail(w)
  \/ \E w \in Requests : HandleSync(w)
  \/ \E w \in Requests : Receive(w)
  \/ \E w \in Requests : NetworkFail(w)
  \/ \E w \in Requests : Forget(w)

SpecClient == InitClient /\ [][NextClient]_vars

(***************************************************************************)
(* Properties                                                              *)
(***************************************************************************)
\* What the claims call the server AuthState of request r.
serverState(r) == authStore[pbOf(r)]

\* isValid of a state as it appears in a SyncMessage.
asJson(b) == IF b THEN "true" ELSE "false"

\* handleSync has returned its response for request r.
Reconciled(r) == req[r].pc = "responded"

\* The state handleSync saves from the message of request r.
messageState(r) ==
  [token |-> IF req[r].body.token = Undefined THEN "" ELSE req[r].body.token,
   model |-> IF req[r].body.model = Undefined THEN Null ELSE req[r].body.model]

\* C1: when the message's isValid equals the validity of the server state
\* handleSync starts from, the response body is exactly {hasUpdate:false}, no
\* Set-Cookie header is appended and the server state is left as it was.
C1_EqualValidityNoOp ==
  \A r \in Requests :
    (Reconciled(r) /\ req[r].body.isValid = asJson(isValid(req[r].pre)))
    => /\ req[r].response.body =
            [hasUpdate |-> FALSE, token |-> Undefined, model |-> Undefined]
       /\ req[r].response.setCookie = <<>>
       /\ serverState(r) = req[r].pre

\* Scenario 2: a valid cookie, a refresh that succeeded, a client that is
\* valid too.
C1_Witness ==
  \E r \in Requests :
    /\ Reconciled(r)
    /\ req[r].refreshed = "ok"
    /\ isValid(req[r].pre)
    /\ req[r].body.isValid = "true"
    /\ req[r].response.body.hasUpdate = FALSE

\* C2: when the server state is invalid and the message says isValid=true and
\* carries a token T and model M that make a valid state, handleSync leaves
\* the server state (T, M), answers {hasUpdate:false} and appends one
\* Set-Cookie header encoding (T, M).
C2_Adoption ==
  \A r \in Requests :
    (/\ Reconciled(r)
     /\ ~isValid(req[r].pre)
     /\ req[r].body.isValid = "true"
     /\ isValid(messageState(r)))
    => /\ serverState(r) = messageState(r)
       /\ req[r].response.body =
            [hasUpdate |-> FALSE, token |-> Undefined, model |-> Undefined]
       /\ req[r].response.setCookie =
            <<[fmt |-> "pb_auth", token |-> messageState(r).token,
               model |-> messageState(r).model]>>

\* Scenario 3: no session on the server, the client sends token "Y".
C2_Witness ==
  \E r \in Requests :
    /\ Reconciled(r)
    /\ ~isValid(req[r].pre)
    /\ req[r].body.isValid = "true"
    /\ req[r].body.token = "Y"
    /\ req[r].body.model = "u2"
    /\ serverState(r) = [token |-> "Y", model |-> "u2"]

\* C3: when the validities differ and the client says isValid=false, or says
\* isValid=true with a token and model that do not make a valid state, the
\* server state ends cleared, the body is exactly
\* {hasUpdate:true, token:"", model:null} and the cookie encodes the cleared
\* state.
C3_SymmetricClearing ==
  \A r \in Requests :
    (/\ Reconciled(r)
     /\ req[r].body.isValid # asJson(isValid(req[r].pre))
     /\ \/ req[r].body.isValid = "false"
        \/ req[r].body.isValid = "true" /\ ~isValid(messageState(r)))
    => /\ serverState(r) = [token |-> "", model |-> Null]
       /\ req[r].response.body = [hasUpdate |-> TRUE, token |-> "", model |-> Null]
       /\ req[r].response.setCookie =
            <<[fmt |-> "pb_auth", token |-> "", model |-> Null]>>

\* Scenario 4: the server holds a valid session, the client says it has none.
C3_Witness ==
  \E r \in Requests :
    /\ Reconciled(r)
    /\ isValid(req[r].pre)
    /\ req[r].body.isValid = "false"
    /\ req[r].response.body.hasUpdate = TRUE

C5_RefreshFailureRecovery ==
  \A r \in Requests :
    req[r].refreshed = "failed"
    => /\ req[r].refreshCalls = 1
       /\ req[r].pc # "refreshing"
       /\ req[r].error \in {"none", "SyntaxError"}
       /\ req[r].pc \in {"readingBody", "resolving", "rendered"}
          => serverState(r) = [token |-> "", model |-> Null]

\* A valid cookie whose refresh was rejected: the hook returned false.
C5_Witness ==
  \E r \in Requests :
    /\ req[r].refreshed = "failed"
    /\ req[r].cookie.token = "X"
    /\ req[r].pc = "resolving"
    /\ req[r].returned = "false"

\* C6 as claimed: hookHandler returns the reconciliation response for a path
\* that begins with the sync route, and otherwise returns false with the
\* AuthState of the request attached to event.locals; without a cookie that
\* AuthState is empty.
C6_Routing ==
  \A r \in Requests :
    (revision # "store" /\ req[r].pc \in {"resolving", "rendered", "responded", "rejected"})
    => IF StartsWith(req[r].path, SyncRoute)
       THEN req[r].returned = "response"
       ELSE /\ req[r].returned = "false"
            /\ req[r].pb \in FreshPbs
            /\ req[r].cookie.fmt = "absent"
               => authStore[req[r].pb] = [token |-> "", model |-> Null]

\* C7: a request makes at most one authRefresh call; it makes one exactly
\* when it decoded the cookie to a valid AuthState; the call has settled
\* before the route is decided; and an absent cookie header decodes to
\* token "" and model null, with no call.
C7_OneRefresh ==
  \A r \in Requests :
    /\ req[r].refreshCalls <= 1
    /\ req[r].pc # "idle"
       => ((req[r].refreshCalls = 1) <=> (req[r].loaded /\ isValid(req[r].decoded)))
    /\ (req[r].refreshCalls = 1 /\ req[r].pc \notin {"idle", "refreshing"})
       => req[r].refreshed \in {"ok", "failed"}
    /\ (req[r].loaded /\ req[r].cookie.fmt = "absent")
       => /\ req[r].decoded = [token |-> "", model |-> Null]
          /\ req[r].refreshCalls = 0

\* A valid cookie: one call, settled, and the sync route decided after it.
C7_Witness ==
  \E r \in Requests :
    /\ req[r].refreshCalls = 1
    /\ req[r].refreshed = "ok"
    /\ req[r].pc = "readingBody"

\* C8 as claimed: every request being served has a client instance attached
\* that is not the adapter's process-wide one and that no other request
\* holds, and it is the instance its handlers work on.
C8_FreshClientPerRequest ==
  \A r \in Requests :
    req[r].pc # "idle"
    => /\ req[r].pb \in FreshPbs
       /\ pbOf(r) = req[r].pb
       /\ \A q \in Requests \ {r} : req[q].pb # req[r].pb

\* The AuthState request r derives from its own cookie and its own refresh.
ownState(r) ==
  IF req[r].refreshed = "ok"
  THEN [token |-> req[r].sent, model |-> Owner(req[r].sent)]
  ELSE IF req[r].refreshed = "failed"
  THEN [token |-> "", model |-> Null]
  ELSE req[r].decoded

\* C9 as claimed: under any interleaving, the AuthState a request works on,
\* the user-store value its page is rendered with and the state its sync
\* response is computed from are the ones derived from its own cookie and
\* refresh.
C9_RequestIsolation ==
  \A r \in Requests :
    /\ req[r].pc \in {"readingBody", "resolving", "rendered"}
       => serverState(r) = ownState(r)
    /\ (req[r].pc = "rendered" /\ revision # "store")
       => req[r].seen = ownState(r).model
    /\ req[r].pc = "responded" => req[r].pre = ownState(r)

\* C10: an outbound request to the backend's origin is dispatched with the
\* Authorization header set to the token of the request's AuthState, and the
\* handler returns the fetch's response.
C10_OutboundAuth ==
  \A r \in Requests :
    (req[r].out.returned # "none" /\ Origin(req[r].out.url) = BaseUrl)
    => /\ req[r].out.authorization = authStore[req[r].pb].token
       /\ req[r].out.returned = "fetch"

\* A refreshed session: the backend is called with its token.
C10_Witness ==
  \E r \in Requests :
    /\ req[r].refreshed = "ok"
    /\ req[r].out.returned = "fetch"
    /\ Origin(req[r].out.url) = BaseUrl
    /\ req[r].out.authorization = "X"

\* C11 as claimed: an outbound request whose origin is not the backend's is
\* not handled (false is returned), and it keeps the Authorization header it
\* came with: the token is not attached.
C11_NoTokenLeak ==
  \A r \in Requests :
    (req[r].out.returned # "none" /\ Origin(req[r].out.url) # BaseUrl)
    => /\ req[r].out.returned = "false"
       /\ req[r].out.authorization = req[r].out.given

\* C16 as claimed: a sync request never fails on its body, and a message
\* without isValid is reconciled as {isValid:false, token:"", model:null}
\* is: nothing happens over an invalid server state, a valid one is cleared.
C16_MalformedMessage ==
  \A r \in Requests :
    (StartsWith(req[r].path, SyncRoute) /\ req[r].pc \in {"responded", "rejected"}
       /\ req[r].error # RangeError)
    => /\ req[r].returned = "response"
       /\ (req[r].body.isValid = Undefined /\ ~isValid(req[r].pre))
          => /\ req[r].response.body =
                  [hasUpdate |-> FALSE, token |-> Undefined, model |-> Undefined]
             /\ req[r].response.setCookie = <<>>
       /\ (req[r].body.isValid = Undefined /\ isValid(req[r].pre))
          => /\ req[r].response.body =
                  [hasUpdate |-> TRUE, token |-> "", model |-> Null]
             /\ serverState(r) = [token |-> "", model |-> Null]

\* C12: in the watcher revisions a step that changes the browser's auth store
\* dispatches exactly one POST, to the sync route, whose body is isValid,
\* token and model of the auth store as the step leaves it.
C12_MutationPosts ==
  [][(revision # "store" /\ local' # local)
     => /\ posted'
        /\ \E w \in Requests :
             /\ sync[w].pc = "idle"
             /\ sync'[w].pc = "posted"
             /\ sync'[w].body.fmt = "json"
             /\ sync'[w].body.isValid = (IF isValid(local') THEN "true" ELSE "false")
             /\ sync'[w].body.token = local'.token
             /\ sync'[w].body.model = local'.model
             /\ \A v \in Requests \ {w} : sync'[v] = sync[v]]_vars

C12_Witness ==
  /\ revision # "store"
  /\ local = save("X", "u1")
  /\ \E w \in Requests :
       /\ sync[w].pc = "posted"
       /\ sync[w].body.isValid = "true"
       /\ sync[w].body.token = "X"
       /\ sync[w].body.model = "u1"
       /\ req[w].pc = "responded"

\* C13 as claimed: when the response of a sync call has status ok and
\* hasUpdate true, the browser's auth store holds the returned token and
\* model once the call has ended.
C13_ClientAppliesUpdate ==
  [][\A w \in Requests :
       (/\ sync[w].pc = "posted"
        /\ sync'[w].pc = "settled"
        /\ sync'[w].status = "ok"
        /\ req[w].response.body.hasUpdate)
       => local' = [token |-> OrEmpty(req[w].response.body.token),
                    model |-> req[w].response.body.model]]_vars

\* C14: when a sync call is answered with a non-success status, the browser's
\* auth store is left as it was and the call's caller runs to its end: no
\* rejection, and the watcher hands its model to the user store.
C14_ErrorStatusNoOp ==
  [][\A w \in Requests :
       (/\ sync[w].pc = "posted"
        /\ req[w].pc = "rejected"
        /\ sync'[w].pc # "posted")
       => /\ sync'[w].pc = "settled"
          /\ sync'[w].status = "error"
          /\ local' = local
          /\ unhandled' = unhandled
          /\ (revision # "store" => cuser' = sync[w].value)]_vars

C14_Witness ==
  \E w \in Requests :
    /\ sync[w].pc = "settled"
    /\ sync[w].status = "error"
    /\ local = save("X", "u1")
    /\ cuser = "u1"
    /\ ~unhandled

\* C15 as claimed: when the fetch of a sync call rejects, the auth store is
\* preserved and no rejection is left unhandled.
C15_NetworkFailureRecovered ==
  [][\A w \in Requests :
       (/\ sync[w].pc = "posted"
        /\ sync'[w].pc = "settled"
        /\ sync'[w].status = "rejected")
       => /\ local' = local
          /\ unhandled' = unhandled]_vars

\* C17 as claimed: in the watcher revisions the step that changes the
\* browser's auth store leaves the user store holding the new model.
C17_OptimisticUser ==
  [][(revision # "store" /\ local' # local) => cuser' = local'.model]_vars

\* C18 as claimed: in the watcher revisions, when no sync call is in flight
\* and none has been rejected, the user store holds the auth store's model.
C18_UserFollowsAuthStore ==
  (/\ revision # "store"
   /\ ~unhandled
   /\ \A w \in Requests : sync[w].pc # "posted")
  => cuser = local.model

\* C19 as claimed: once the adapter is constructed in the browser a sync POST
\* has been dispatched.
C19_InitialSync ==
  posted

\* C20 as claimed: in the store revision, when the sync call of $user = null,
\* made while logged in, is answered, the cookie no longer restores a valid
\* session, the auth store is cleared and the user store holds null.
C20_NullLogsOut ==
  [][\A w \in Requests :
       (/\ revision = "store"
        /\ sync[w].pc = "posted"
        /\ sync[w].value = Null
        /\ sync[w].body.isValid = "true"
        /\ sync'[w].pc = "settled"
        /\ sync'[w].status = "ok")
       => /\ ~isValid(loadFromCookie(jar'))
          /\ cuser' = Null]_vars

\* C21: handling the response of a sync call never dispatches another POST,
\* also when the response's update is saved in the auth store: a call in
\* flight can only end, and a POST is dispatched only from an idle slot by a
\* step that touches no other call. So every POST answers one write of the
\* auth store or one assignment to the user store.
C21_WatcherTerminates ==
  [][\A w \in Requests :
       /\ (sync[w].pc = "posted" /\ sync'[w] # sync[w]) => sync'[w].pc = "settled"
       /\ (sync[w].pc # "posted" /\ sync'[w].pc = "posted")
          => /\ sync[w].pc = "idle"
             /\ \A v \in Requests \ {w} : sync'[v] = sync[v]]_vars

\* The store revision has saved the cleared state of a hasUpdate response,
\* and no call is in flight.
C21_Witness ==
  /\ revision = "store"
  /\ local = clear
  /\ jar = exportToCookie(clear)
  /\ \E w \in Requests : sync[w].pc = "settled" /\ sync[w].status = "ok"
  /\ \A w \in Requests : sync[w].pc # "posted"

\* C22 as claimed: in every SyncMessage handleSync has acted on, isValid is
\* true exactly when the message's token and model make a valid AuthState,
\* and the response is the one handleSync gives for that validity.
C22_ValidityIsDerived ==
  \A r \in Requests :
    (Reconciled(r) /\ req[r].body.isValid # Undefined)
    => /\ req[r].body.isValid = asJson(isValid(messageState(r)))
       /\ req[r].response.body.hasUpdate
          <=> (isValid(req[r].pre) # isValid(messageState(r)))
             /\ ~(~isValid(req[r].pre) /\ isValid(messageState(r)))

\* C23 as claimed: when a sync request ends with a server AuthState other than
\* the one decoded from its cookie, the response carries one Set-Cookie header
\* encoding the final state.
C23_FinalStatePersisted ==
  \A r \in Requests :
    (Reconciled(r) /\ serverState(r) # req[r].decoded)
    => req[r].response.setCookie =
         <<[fmt |-> "pb_auth", token |-> serverState(r).token,
            model |-> serverState(r).model]>>

\* C24 as claimed: on the revision with the pb accessor every hookHandler
\* invocation gets a new client instance from the accessor and goes on to
\* load the cookie into it.
C24_AccessorTerminates ==
  \A r \in Requests :
    (revision = "getter" /\ req[r].pc # "idle")
    => /\ req[r].error # RangeError
       /\ req[r].pb \in FreshPbs
       /\ req[r].loaded

C26_OneCurrentUser ==
  \A r \in Requests :
    (Reconciled(r) /\ req[r].body.isValid = "true" /\ isValid(messageState(r)))
    => LET cookies == req[r].response.setCookie
           held == IF cookies # <<>> THEN cookies[Len(cookies)] ELSE req[r].cookie
       IN  /\ held.fmt = "pb_auth"
           /\ held.token = messageState(r).token
           /\ held.model = messageState(r).model

\* C27: when the hook has returned false, the AuthState downstream handlers
\* read in event.locals is valid only if the request made its one authRefresh
\* call and the backend accepted it.
C27_ValidOnlyAfterRefresh ==
  \A r \in Requests :
    (req[r].returned = "false" /\ req[r].pc \in {"resolving", "rendered"}
       /\ isValid(serverState(r)))
    => /\ req[r].refreshCalls = 1
       /\ req[r].refreshed = "ok"
       /\ serverState(r).token = req[r].sent

\* A page request with the cookie of an adopted session Y/u2, refreshed.
C27_Witness ==
  \E r \in Requests :
    /\ req[r].pc = "resolving"
    /\ req[r].returned = "false"
    /\ req[r].cookie = [fmt |-> "pb_auth", token |-> "Y", model |-> "u2"]
    /\ req[r].refreshed = "ok"
    /\ isValid(serverState(r))
    /\ req[r].pb \in FreshPbs

====
